---------------------------- MODULE Spec2Model ----------------------------
(***************************************************************************)
(* A model of bibble (src/bibble/main.py): the dialect normalizer          *)
(* _better_biblatex, the sort-key generator _sortkey, the template filters *)
(* _venue, _doi, _month_name, _title, _venue_type, _main_url, and the      *)
(* rendering pipeline bibmain.                                             *)
(*                                                                         *)
(* Python strings are sequences of one-character strings, so that slicing, *)
(* prefix tests, padding, replacement and comparison are computed as the   *)
(* code computes them.  A dict is a function whose DOMAIN is its key set.  *)
(* A call's outcome is a record [exc, val]: exc = "" for a normal return   *)
(* of val, otherwise the name of the exception raised and val its argument.*)
(***************************************************************************)
EXTENDS Integers, Sequences, FiniteSets, TLC

(***************************************************************************)
(* Python string primitives                                                *)
(***************************************************************************)

Min(a, b) == IF a <= b THEN a ELSE b

\* s[a:b] for 0 <= a <= b
Slice(s, a, b) == SubSeq(s, a + 1, Min(b, Len(s)))

\* s.startswith(p)
StartsWith(s, p) == Len(s) >= Len(p) /\ SubSeq(s, 1, Len(p)) = p

\* s.replace(c, '') for a one-character c
RemoveChar(s, c) == SelectSeq(s, LAMBDA x : x # c)

DigitChars == <<"0", "1", "2", "3", "4", "5", "6", "7", "8", "9">>

DigitSet == {DigitChars[k] : k \in 1..10}

DigitVal(c) == (CHOOSE k \in 1..10 : DigitChars[k] = c) - 1

\* re.match('^[0-9]+$', s)
IsDigits(s) == Len(s) > 0 /\ \A k \in 1..Len(s) : s[k] \in DigitSet

RECURSIVE ParseNat(_)
ParseNat(s) ==
    IF Len(s) = 0 THEN 0
    ELSE 10 * ParseNat(SubSeq(s, 1, Len(s) - 1)) + DigitVal(s[Len(s)])

\* int(s) succeeds: an optional sign and decimal digits (the modelled
\* alphabet holds no whitespace and no underscore)
IntOk(s) ==
    \/ IsDigits(s)
    \/ Len(s) > 1 /\ s[1] \in {"-", "+"} /\ IsDigits(Tail(s))

ParseInt(s) ==
    IF s[1] = "-" THEN 0 - ParseNat(Tail(s))
    ELSE IF s[1] = "+" THEN ParseNat(Tail(s))
    ELSE ParseNat(s)

RECURSIVE NatDigits(_)
NatDigits(n) ==
    IF n < 10 THEN <<DigitChars[n + 1]>>
    ELSE NatDigits(n \div 10) \o <<DigitChars[(n % 10) + 1]>>

RECURSIVE ZeroPad(_, _)
ZeroPad(s, w) == IF Len(s) >= w THEN s ELSE ZeroPad(<<"0">> \o s, w)

\* '{:0wd}'.format(n)
FmtD(n, w) ==
    IF n >= 0 THEN ZeroPad(NatDigits(n), w)
    ELSE <<"-">> \o ZeroPad(NatDigits(0 - n), w - 1)

UpperChars ==
    <<"A", "B", "C", "D", "E", "F", "G", "H", "I", "J", "K", "L", "M",
      "N", "O", "P", "Q", "R", "S", "T", "U", "V", "W", "X", "Y", "Z">>

LowerChars ==
    <<"a", "b", "c", "d", "e", "f", "g", "h", "i", "j", "k", "l", "m",
      "n", "o", "p", "q", "r", "s", "t", "u", "v", "w", "x", "y", "z">>

LowerChar(c) ==
    IF \E k \in 1..26 : UpperChars[k] = c
    THEN LowerChars[CHOOSE k \in 1..26 : UpperChars[k] = c]
    ELSE c

\* s.lower()
Lower(s) == [k \in 1..Len(s) |-> LowerChar(s[k])]

\* ord(c) for the characters a sort key can hold
Ord(c) == IF c = "-" THEN 45 ELSE 48 + DigitVal(c)

\* a < b on Python strings
RECURSIVE StrLess(_, _)
StrLess(a, b) ==
    IF Len(b) = 0 THEN FALSE
    ELSE IF Len(a) = 0 THEN TRUE
    ELSE IF a[1] # b[1] THEN Ord(a[1]) < Ord(b[1])
    ELSE StrLess(Tail(a), Tail(b))

(***************************************************************************)
(* Call outcomes and dict updates                                          *)
(***************************************************************************)

Ok(v) == [exc |-> "", val |-> v]

Raise(e, v) == [exc |-> e, val |-> v]

\* Python's None: no string, since a string holds one-character elements
None == <<"None">>

\* d[k] = v
SetField(d, k, v) == [x \in (DOMAIN d) \cup {k} |-> IF x = k THEN v ELSE d[x]]

(***************************************************************************)
(* Tables                                                                  *)
(***************************************************************************)

MonthKeys ==
    << <<"j", "a", "n">>, <<"f", "e", "b">>, <<"m", "a", "r">>,
       <<"a", "p", "r">>, <<"m", "a", "y">>, <<"j", "u", "n">>,
       <<"j", "u", "l">>, <<"a", "u", "g">>, <<"s", "e", "p">>,
       <<"o", "c", "t">>, <<"n", "o", "v">>, <<"d", "e", "c">> >>

MONTHS ==
    [k \in {MonthKeys[n] : n \in 1..12} |->
        CHOOSE n \in 1..12 : MonthKeys[n] = k]

\* calendar.month_name: 13 entries, the first (index 0) empty
CalendarMonthName ==
    << <<>>,
       <<"J", "a", "n", "u", "a", "r", "y">>,
       <<"F", "e", "b", "r", "u", "a", "r", "y">>,
       <<"M", "a", "r", "c", "h">>,
       <<"A", "p", "r", "i", "l">>,
       <<"M", "a", "y">>,
       <<"J", "u", "n", "e">>,
       <<"J", "u", "l", "y">>,
       <<"A", "u", "g", "u", "s", "t">>,
       <<"S", "e", "p", "t", "e", "m", "b", "e", "r">>,
       <<"O", "c", "t", "o", "b", "e", "r">>,
       <<"N", "o", "v", "e", "m", "b", "e", "r">>,
       <<"D", "e", "c", "e", "m", "b", "e", "r">> >>

Article == <<"a", "r", "t", "i", "c", "l", "e">>
Inproceedings == <<"i", "n", "p", "r", "o", "c", "e", "e", "d", "i", "n", "g", "s">>
Incollection == <<"i", "n", "c", "o", "l", "l", "e", "c", "t", "i", "o", "n">>
Inbook == <<"i", "n", "b", "o", "o", "k">>
Techreport == <<"t", "e", "c", "h", "r", "e", "p", "o", "r", "t">>
Phdthesis == <<"p", "h", "d", "t", "h", "e", "s", "i", "s">>
Mastersthesis == <<"m", "a", "s", "t", "e", "r", "s", "t", "h", "e", "s", "i", "s">>
Unpublished == <<"u", "n", "p", "u", "b", "l", "i", "s", "h", "e", "d">>
Misc == <<"m", "i", "s", "c">>

UnknownVenuePrefix ==
    <<"U", "n", "k", "n", "o", "w", "n", " ", "v", "e", "n", "u", "e", " ",
      "(", "t", "y", "p", "e", "=">>

DoiBase ==
    <<"h", "t", "t", "p", "s", ":", "/", "/", "d", "x", ".", "d", "o", "i",
      ".", "o", "r", "g", "/">>

Http == <<"h", "t", "t", "p">>

(***************************************************************************)
(* _better_biblatex (main.py 211-226): the argument is the fields dict.    *)
(***************************************************************************)

\* a rename: journaltitle is moved to journal, not copied
rename_journaltitle(entry) ==
    IF "journaltitle" \in DOMAIN entry
    THEN [x \in ((DOMAIN entry) \ {"journaltitle"}) \cup {"journal"} |->
            IF x = "journal" THEN entry["journaltitle"] ELSE entry[x]]
    ELSE entry

\* lines 223-224
mirror_journaltitle(entry) ==
    IF "journaltitle" \in DOMAIN entry
    THEN SetField(entry, "journal", entry["journaltitle"])
    ELSE entry

\* the month slice taken one character early: date[4:6]
derive_from_date_shifted(entry) ==
    LET withYear == SetField(entry, "year", Slice(entry["date"], 0, 4))
    IN  IF Len(entry["date"]) >= 7
        THEN SetField(withYear, "month", Slice(entry["date"], 4, 6))
        ELSE withYear

\* lines 219-221
derive_from_date(entry) ==
    LET withYear == SetField(entry, "year", Slice(entry["date"], 0, 4))
    IN  IF Len(entry["date"]) >= 7
        THEN SetField(withYear, "month", Slice(entry["date"], 5, 7))
        ELSE withYear

better_biblatex(entry) ==
    IF "year" \notin DOMAIN entry
    THEN IF "date" \notin DOMAIN entry
         THEN Raise("ValueError", entry)
         ELSE Ok(mirror_journaltitle(derive_from_date(entry)))
    ELSE Ok(mirror_journaltitle(entry))

(***************************************************************************)
(* _month_match (169-173) and _sortkey (185-198)                           *)
(***************************************************************************)

month_match(mon) ==
    IF IsDigits(mon) THEN Ok(ParseNat(mon))
    ELSE LET k == Slice(Lower(mon), 0, 3)
         IN  IF k \in DOMAIN MONTHS THEN Ok(MONTHS[k])
             ELSE Raise("KeyError", k)

\* the month formatted with '{:d}', without padding
sortkey_month_unpadded(e) ==
    IF "month" \notin DOMAIN e THEN <<"0", "0">>
    ELSE LET m == month_match(e["month"])
         IN  IF m.exc = "KeyError" THEN <<"0", "0">>
             ELSE NatDigits(m.val)

\* lines 193-197: the try block around the month lookup; except KeyError
\* covers both e['month'] and the MONTHS lookup inside _month_match
sortkey_month(e) ==
    IF "month" \notin DOMAIN e THEN <<"0", "0">>
    ELSE LET m == month_match(e["month"])
         IN  IF m.exc = "KeyError" THEN <<"0", "0">>
             ELSE FmtD(m.val, 2)

sortkey(entry) ==
    LET e == entry.fields
    IN  IF "year" \notin DOMAIN e THEN Raise("KeyError", <<"y", "e", "a", "r">>)
        ELSE IF ~IntOk(e["year"]) THEN Raise("ValueError", e["year"])
        ELSE Ok(FmtD(ParseInt(e["year"]), 4) \o sortkey_month(e))

(***************************************************************************)
(* _doi (157-166)                                                          *)
(***************************************************************************)

\* a doi that is prefixed whatever it begins with
doi_always_prefixed(entry) ==
    IF "doi" \in DOMAIN entry.fields
    THEN Ok(DoiBase \o entry.fields["doi"])
    ELSE Ok(<<>>)

doi(entry) ==
    IF "doi" \in DOMAIN entry.fields
    THEN IF StartsWith(entry.fields["doi"], Http)
         THEN Ok(entry.fields["doi"])
         ELSE Ok(DoiBase \o entry.fields["doi"])
    ELSE Ok(<<>>)

(***************************************************************************)
(* _month_name (176-182).  The argument is a tagged Python value:          *)
(* [t, n, s] with t = "int" (the integer n), "str" (the string s) or        *)
(* "none" (an undefined value).                                            *)
(***************************************************************************)

\* int(monthnum)
py_int(x) ==
    IF x.t = "int" THEN Ok(x.n)
    ELSE IF x.t = "str"
         THEN IF IntOk(x.s) THEN Ok(ParseInt(x.s)) ELSE Raise("ValueError", 0)
         ELSE Raise("TypeError", 0)

\* month_name[n]: a Python sequence index, so -13..-1 count from the end
calendar_getitem(n) ==
    IF n >= 0 /\ n <= 12 THEN Ok(CalendarMonthName[n + 1])
    ELSE IF n < 0 /\ n >= 0 - 13 THEN Ok(CalendarMonthName[n + 13 + 1])
    ELSE Raise("IndexError", n)

month_name(monthnum) ==
    LET n == py_int(monthnum)
    IN  IF n.exc # "" THEN Ok(<<>>)
        ELSE LET r == calendar_getitem(n.val)
             IN  IF r.exc # "" THEN Ok(<<>>) ELSE r

(***************************************************************************)
(* _venue (58-113), _venue_type (44-55), _title (116-128),                 *)
(* _main_url (131-137)                                                     *)
(***************************************************************************)

\* a non-empty string is true
Truthy(s) == Len(s) > 0

\* line 112 and line 127
remove_curlies(s) == RemoveChar(RemoveChar(s, "{"), "}")

venue_article(f) ==
    IF "journal" \notin DOMAIN f THEN Raise("KeyError", <<"j", "o", "u", "r", "n", "a", "l">>)
    ELSE IF /\ "volume" \in DOMAIN f
            /\ Truthy(f["volume"])
            /\ "number" \in DOMAIN f
            /\ Truthy(f["number"])
         THEN Ok(f["journal"] \o <<" ">> \o f["volume"] \o <<"(">> \o f["number"] \o <<")">>)
         ELSE Ok(f["journal"])

venue_series(f, v) ==
    IF "series" \in DOMAIN f /\ Truthy(f["series"])
    THEN v \o <<" ", "(">> \o f["series"] \o <<")">>
    ELSE v

venue_proceedings(entry) ==
    LET f == entry.fields
    IN  IF "booktitle" \in DOMAIN f THEN Ok(venue_series(f, f["booktitle"]))
        ELSE IF "eventtitle" \in DOMAIN f THEN Ok(venue_series(f, f["eventtitle"]))
        ELSE IF "conference" \in DOMAIN f THEN Ok(venue_series(f, f["conference"]))
        ELSE Raise("ValueError", entry)

venue_techreport(f) ==
    LET number == IF "number" \in DOMAIN f THEN f["number"] \o <<",", " ">> ELSE <<>>
        howpublished ==
            IF "institution" \in DOMAIN f THEN f["institution"]
            ELSE IF "publisher" \in DOMAIN f THEN f["publisher"]
            ELSE <<>>
    IN  Ok(number \o howpublished)

venue_unpublished(f) ==
    IF "eventtitle" \in DOMAIN f THEN Ok(<<"I", "n", " ">> \o f["eventtitle"])
    ELSE Ok(<<"U", "n", "p", "u", "b", "l", "i", "s", "h", "e", "d">>)

\* an unknown type that never halts
venue_unknown_silent(type, halt_if_unknown) ==
    Ok(UnknownVenuePrefix \o type \o <<")">>)

\* lines 106-109
venue_unknown(type, halt_if_unknown) ==
    IF halt_if_unknown THEN Raise("ValueError", type)
    ELSE Ok(UnknownVenuePrefix \o type \o <<")">>)

venue(entry, halt_if_unknown) ==
    LET f == entry.fields
        r == IF entry.type = Article THEN venue_article(f)
             ELSE IF entry.type \in {Inproceedings, Incollection} THEN venue_proceedings(entry)
             ELSE IF entry.type = Inbook
                  THEN IF "title" \in DOMAIN f THEN Ok(f["title"])
                       ELSE Raise("KeyError", <<"t", "i", "t", "l", "e">>)
             ELSE IF entry.type = Techreport THEN venue_techreport(f)
             ELSE IF entry.type = Phdthesis \/ entry.type = Mastersthesis THEN Ok(<<>>)
             ELSE IF entry.type \in {Unpublished, Misc} THEN venue_unpublished(f)
             ELSE venue_unknown(entry.type, halt_if_unknown)
    IN  IF r.exc # "" THEN r ELSE Ok(remove_curlies(r.val))

venue_type(entry) ==
    LET f == entry.fields
        school == <<"s", "c", "h", "o", "o", "l">>
    IN  IF entry.type = Inbook THEN Ok(<<"C", "h", "a", "p", "t", "e", "r", " ", "i", "n", " ">>)
        ELSE IF entry.type = Techreport
             THEN Ok(<<"T", "e", "c", "h", "n", "i", "c", "a", "l", " ", "R", "e", "p", "o", "r", "t", " ">>)
        ELSE IF entry.type = Phdthesis
             THEN IF "school" \in DOMAIN f
                  THEN Ok(<<"P", "h", ".", "D", ".", " ", "t", "h", "e", "s", "i", "s", ",", " ">> \o f["school"])
                  ELSE Raise("KeyError", school)
        ELSE IF entry.type = Mastersthesis
             THEN IF "school" \in DOMAIN f
                  THEN Ok(<<"M", "a", "s", "t", "e", "r", "'", "s", " ", "t", "h", "e", "s", "i", "s", ",", " ">> \o f["school"])
                  ELSE Raise("KeyError", school)
        ELSE Ok(<<>>)

title(entry) ==
    LET f == entry.fields
    IN  IF entry.type = Inbook /\ "chapter" \in DOMAIN f THEN Ok(remove_curlies(f["chapter"]))
        ELSE IF "title" \in DOMAIN f THEN Ok(remove_curlies(f["title"]))
        ELSE Raise("KeyError", <<"t", "i", "t", "l", "e">>)

main_url(entry) ==
    IF "url" \in DOMAIN entry.fields THEN Ok(entry.fields["url"])
    ELSE IF "ee" \in DOMAIN entry.fields THEN Ok(entry.fields["ee"])
    ELSE Ok(None)


(***************************************************************************)
(* sorted(db.entries.values(), key=_sortkey, reverse=True) (line 253).     *)
(* Entries are referred to by their position in db.entries; keyOf maps a   *)
(* position to its sort key.  list.sort is stable, and with reverse=True   *)
(* it reverses the list, sorts it ascending and reverses the result.       *)
(***************************************************************************)

RECURSIVE Reverse(_)
Reverse(xs) == IF Len(xs) = 0 THEN <<>> ELSE Append(Reverse(Tail(xs)), Head(xs))

\* x goes after every element whose key is not greater than its own
RECURSIVE insert_asc(_, _, _)
insert_asc(xs, x, keyOf) ==
    IF Len(xs) = 0 THEN <<x>>
    ELSE IF StrLess(keyOf[x], keyOf[Head(xs)]) THEN <<x>> \o xs
    ELSE <<Head(xs)>> \o insert_asc(Tail(xs), x, keyOf)

RECURSIVE sort_asc(_, _)
sort_asc(xs, keyOf) ==
    IF Len(xs) = 0 THEN <<>>
    ELSE insert_asc(sort_asc(SubSeq(xs, 1, Len(xs) - 1), keyOf), xs[Len(xs)], keyOf)

\* the sort-then-reverse idiom, which turns ties around
sorted_then_reversed(xs, keyOf) == Reverse(sort_asc(xs, keyOf))

sorted_reverse(xs, keyOf) == Reverse(sort_asc(Reverse(xs), keyOf))

(***************************************************************************)
(* State                                                                   *)
(***************************************************************************)

VARIABLES
    db,          \* what the parser returned: a sequence of [key, type, fields]
    entries,     \* the Entry objects of db.entries, by position: [type, fields]
    tmpl,        \* the filter the template applies to every entry
    pc,          \* where bibmain is: "normalize", "render", "done", "failed"
    i,           \* the position the loop of lines 248-250 is at
    keys,        \* the outcomes of the _sortkey calls made by sorted()
    bib_sorted,  \* positions of the entries in the order handed to the template
    j,           \* the entry the template is at
    out,         \* the rendered text, one filter result per entry
    err,         \* the exception that left bibmain
    normcount,   \* how many times the loop body has run on each entry
    fn,          \* the function of a direct call
    arg,         \* its argument
    ret          \* its outcome

vars == <<db, entries, tmpl, pc, i, keys, bib_sorted, j, out, err, normcount,
          fn, arg, ret>>

pipeline_vars == <<db, entries, tmpl, pc, i, keys, bib_sorted, j, out, err, normcount>>

call_vars == <<fn, arg, ret>>

(***************************************************************************)
(* Bounds and inputs                                                       *)
(***************************************************************************)

MaxEntries == 3

MaxTypeLen == 2

MaxDoiLen == 5

\* all sequences over S of length lo..hi
SeqsOf(S, lo, hi) == UNION {[1..n -> S] : n \in lo..hi}

EmptyDict == [x \in {} |-> <<>>]

\* a field that is absent or holds one of vals
OptField(k, vals) == {EmptyDict} \cup {k :> v : v \in vals}

S2019 == <<"2", "0", "1", "9">>
S2020 == <<"2", "0", "2", "0">>
SJan == <<"j", "a", "n">>
SMay == <<"M", "a", "y">>
SFoo == <<"f", "o", "o">>
SNature == <<"N", "a", "t", "u", "r", "e">>
SPnas == <<"{", "P", "N", "A", "S", "}">>
STitle == <<"{", "T", "}", "i">>
Date2019_05_12 == <<"2", "0", "1", "9", "-", "0", "5", "-", "1", "2">>
Date2020_11 == <<"2", "0", "2", "0", "-", "1", "1">>
Date2019_0 == <<"2", "0", "1", "9", "-", "0">>

\* citation keys are unique: the n-th entry of the file has key "k<n>"
CiteKey(n) == <<"k">> \o NatDigits(n)

\* the parsed entries bibmain is run on
RawEntries ==
    { [type |-> Article, fields |-> ("title" :> STitle) @@ ("year" :> S2020) @@ ("journal" :> SNature)],
      [type |-> Article, fields |-> ("title" :> STitle) @@ ("year" :> S2019) @@ ("month" :> SMay)
                                    @@ ("journal" :> SNature) @@ ("doi" :> <<"1", "0", ".", "1">>)],
      [type |-> Article, fields |-> ("title" :> STitle) @@ ("date" :> Date2019_05_12)
                                    @@ ("journaltitle" :> SPnas)],
      [type |-> Misc, fields |-> ("title" :> STitle) @@ ("date" :> S2019) @@ ("url" :> <<"u">>)],
      [type |-> Misc, fields |-> ("title" :> STitle)],
      [type |-> Misc, fields |-> ("title" :> STitle) @@ ("date" :> <<"1", "9">>)],
      [type |-> Misc, fields |-> ("title" :> STitle) @@ ("date" :> <<"a", "b", "c">>)],
      [type |-> Inbook, fields |-> ("title" :> STitle) @@ ("year" :> S2019) @@ ("month" :> SFoo)],
      [type |-> <<"f", "o", "o">>, fields |-> ("title" :> STitle) @@ ("year" :> S2019) @@ ("month" :> <<"5">>)] }

TemplateFilters == {"title", "venue", "venue_type", "main_url", "doi", "monthname"}

\* the value a template hands to the monthname filter: entry.fields.month
month_arg(entry) ==
    IF "month" \in DOMAIN entry.fields THEN [t |-> "str", n |-> 0, s |-> entry.fields["month"]]
    ELSE [t |-> "none", n |-> 0, s |-> <<>>]

\* the filters registered at lines 233-241, as a template applies them
apply_filter(name, entry) ==
    CASE name = "title" -> title(entry)
      [] name = "venue" -> venue(entry, TRUE)
      [] name = "venue_type" -> venue_type(entry)
      [] name = "main_url" -> main_url(entry)
      [] name = "doi" -> doi(entry)
      [] name = "monthname" -> month_name(month_arg(entry))

(***************************************************************************)
(* bibmain (229-255)                                                       *)
(***************************************************************************)

\* no call is under way
NoCall == [none |-> TRUE]

CallsIdle == fn = "idle" /\ arg = NoCall /\ ret = NoCall

Init ==
    /\ \E n \in 0..MaxEntries : \E raw \in [1..n -> RawEntries] :
          /\ db = [k \in 1..n |-> [key |-> CiteKey(k), type |-> raw[k].type, fields |-> raw[k].fields]]
          /\ entries = raw
          /\ normcount = [k \in 1..n |-> 0]
    /\ tmpl \in TemplateFilters
    /\ pc = "normalize"
    /\ i = 1
    /\ keys = <<>>
    /\ bib_sorted = <<>>
    /\ j = 1
    /\ out = <<>>
    /\ err = Ok(<<>>)
    /\ CallsIdle

\* a loop that stops one entry short
loop_done_early(idx, es) == idx > Len(es) - 1

\* the for loop of line 248 is exhausted
loop_done(idx, es) == idx > Len(es)

\* lines 249-250 on the entry at position i
Normalize ==
    /\ pc = "normalize"
    /\ ~loop_done(i, entries)
    /\ LET keyed == SetField(entries[i].fields, "key", db[i].key)
           r == better_biblatex(keyed)
       IN  IF r.exc = ""
           THEN /\ entries' = [entries EXCEPT ![i].fields = r.val]
                /\ i' = i + 1
                /\ UNCHANGED <<pc, err>>
           ELSE /\ entries' = [entries EXCEPT ![i].fields = keyed]
                /\ pc' = "failed"
                /\ err' = r
                /\ UNCHANGED i
    /\ normcount' = [normcount EXCEPT ![i] = @ + 1]
    /\ UNCHANGED <<db, tmpl, keys, bib_sorted, j, out, call_vars>>

\* line 253: sorted() calls _sortkey on every entry in turn, then orders them
Sort ==
    /\ pc = "normalize"
    /\ loop_done(i, entries)
    /\ LET ks == [n \in 1..Len(entries) |-> sortkey(entries[n])]
           bad == {n \in 1..Len(entries) : ks[n].exc # ""}
       IN  IF bad = {}
           THEN /\ keys' = ks
                /\ bib_sorted' = sorted_reverse([n \in 1..Len(entries) |-> n],
                                                [n \in 1..Len(entries) |-> ks[n].val])
                /\ pc' = "render"
                /\ UNCHANGED err
           ELSE LET first == CHOOSE n \in bad : \A m \in bad : n <= m
                IN  /\ keys' = SubSeq(ks, 1, first)
                    /\ err' = ks[first]
                    /\ pc' = "failed"
                    /\ UNCHANGED bib_sorted
    /\ UNCHANGED <<db, entries, tmpl, i, j, out, normcount, call_vars>>

\* line 254: the template applies its filter to the next entry
Render ==
    /\ pc = "render"
    /\ j <= Len(bib_sorted)
    /\ LET r == apply_filter(tmpl, entries[bib_sorted[j]])
       IN  IF r.exc = ""
           THEN /\ out' = Append(out, r.val)
                /\ j' = j + 1
                /\ UNCHANGED <<pc, err>>
           ELSE /\ pc' = "failed"
                /\ err' = r
                /\ UNCHANGED <<out, j>>
    /\ UNCHANGED <<db, entries, tmpl, i, keys, bib_sorted, normcount, call_vars>>

\* line 255
Return ==
    /\ pc = "render"
    /\ j > Len(bib_sorted)
    /\ pc' = "done"
    /\ UNCHANGED <<db, entries, tmpl, i, keys, bib_sorted, j, out, err, normcount, call_vars>>

Next == Normalize \/ Sort \/ Render \/ Return

Spec == Init /\ [][Next]_vars


(***************************************************************************)
(* Properties of bibmain, checked under Spec                               *)
(***************************************************************************)

\* sorted() has returned: the list of line 253 exists
Sorted == pc # "normalize" /\ Len(keys) = Len(entries) /\ \A n \in 1..Len(keys) : keys[n].exc = ""

SortKeyAt(k) == keys[bib_sorted[k]].val

\* C2: the entries handed to the template are a permutation of the parsed
\* records, in descending order of sort key, and records with the same sort
\* key (hence any two with identical year and month) keep the order they
\* had in the parser's output.
C2_SortedDescendingStable ==
    Sorted =>
        /\ Len(bib_sorted) = Len(db)
        /\ {bib_sorted[k] : k \in 1..Len(bib_sorted)} = 1..Len(db)
        /\ \A a, b \in 1..Len(bib_sorted) :
              a < b => /\ ~StrLess(SortKeyAt(a), SortKeyAt(b))
                       /\ (SortKeyAt(a) = SortKeyAt(b) => bib_sorted[a] < bib_sorted[b])

\* a finished run of three entries, two of them tied, that sorting reordered
C2_Witness ==
    /\ pc = "done"
    /\ Len(bib_sorted) = 3
    /\ \E a, b \in 1..3 : a < b /\ SortKeyAt(a) = SortKeyAt(b)
    /\ \E a \in 1..3 : bib_sorted[a] # a

IsFourDigits(s) == Len(s) = 4 /\ IsDigits(s)

\* the date of a parsed record is usable: at least 4 characters, the first
\* four of them digits
UsableDate(f) == "date" \in DOMAIN f /\ Len(f["date"]) >= 4 /\ IsDigits(Slice(f["date"], 0, 4))

\* the run was aborted by the normalization of entry n, with an error that
\* names its key, and rendered nothing
AbortedAt(n) ==
    /\ pc = "failed"
    /\ i = n
    /\ keys = <<>>
    /\ out = <<>>
    /\ err.exc = "ValueError"
    /\ "key" \in DOMAIN err.val
    /\ err.val["key"] = db[n].key

\* C3: every record the loop has processed either aborted the run in
\* normalization, with an error naming its key and nothing rendered, or has
\* a 4-digit year from which _sortkey builds a key; and no record without a
\* year and without a usable date reaches sorting or rendering.
C3_YearOrAbort ==
    /\ \A n \in 1..Len(entries) :
          normcount[n] = 1 =>
              \/ AbortedAt(n)
              \/ /\ "year" \in DOMAIN entries[n].fields
                 /\ IsFourDigits(entries[n].fields["year"])
                 /\ sortkey(entries[n]).exc = ""
    /\ (keys # <<>> \/ pc \in {"render", "done"}) =>
          \A n \in 1..Len(db) : "year" \in DOMAIN db[n].fields \/ UsableDate(db[n].fields)

\* C10, the order: once a sort key has been computed or the template has the
\* entries, every entry has been through the loop body exactly once.
C10_AllNormalizedFirst ==
    /\ \A n \in 1..Len(entries) : normcount[n] <= 1
    /\ (keys # <<>> \/ out # <<>> \/ pc \in {"render", "done"}) =>
          \A n \in 1..Len(entries) : normcount[n] = 1

\* C10, the frame: a step changes the fields of an entry only when it is the
\* loop body's first and only run on that entry.
C10_OnlyNormalizeMutates ==
    \A n \in 1..Len(entries) :
        entries'[n] # entries[n] =>
            /\ pc = "normalize"
            /\ n = i
            /\ normcount[n] = 0
            /\ normcount'[n] = 1
            /\ keys = <<>>
            /\ out = <<>>

\* C10: in every run of bibmain each record's fields are changed exactly
\* once, by the loop body of lines 249-250 (key injection and
\* normalization), all records are normalized before any sort key is
\* computed or any filter is applied, and nothing changes them afterwards.
C10_NormalizeOnceBeforeUse ==
    [](C10_AllNormalizedFirst) /\ [][C10_OnlyNormalizeMutates]_vars

\* a finished run of two or more entries, all changed by normalization,
\* sorted into another order and rendered
C10_Witness ==
    /\ pc = "done"
    /\ Len(entries) >= 2
    /\ \A n \in 1..Len(entries) : entries[n].fields # db[n].fields /\ normcount[n] = 1
    /\ bib_sorted[1] # 1
    /\ Len(out) = Len(entries)


(***************************************************************************)
(* Direct calls of the normalizer, the sort-key generator and the filters, *)
(* one call at a time, on inputs drawn from bounded sets.                  *)
(***************************************************************************)

\* field dicts given to _better_biblatex
NormalizerInputs ==
    { ("title" :> STitle) @@ y @@ d @@ m @@ jn @@ jt :
        y \in OptField("year", {S2019}),
        d \in OptField("date", {<<>>, <<"1", "9">>, S2019, Date2019_0, Date2020_11, Date2019_05_12}),
        m \in OptField("month", {SJan}),
        jn \in OptField("journal", {SNature}),
        jt \in OptField("journaltitle", {SPnas}) }

SortYears == {0, 999, 2019, 2020, 9999}

SortMonths == 1..12

\* the ways a bibliography spells month n: a number, a padded number, an
\* abbreviation, the capitalised English name
MonthSpellings(n) == {NatDigits(n), FmtD(n, 2), MonthKeys[n], CalendarMonthName[n + 1]}

\* records with a valid date, each with the (y, m) it denotes; m = 0 stands
\* for no month
DatedRecords ==
    { [y |-> yy, m |-> 0, entry |-> [type |-> Misc, fields |-> ("year" :> ys)]] :
        <<yy, ys>> \in {<<n, sp>> \in SortYears \X SeqsOf(DigitSet, 1, 4) :
                          sp \in {NatDigits(n), FmtD(n, 4)}} }
    \cup
    { [y |-> t[1], m |-> t[3], entry |-> [type |-> Misc, fields |-> ("year" :> t[2]) @@ ("month" :> t[4])]] :
        t \in {q \in SortYears \X {FmtD(n, 4) : n \in SortYears} \X SortMonths
                     \X UNION {MonthSpellings(n) : n \in SortMonths} :
                 q[2] = FmtD(q[1], 4) /\ q[4] \in MonthSpellings(q[3])} }

\* records whose month is present and is no month; m = -1 marks them
UndatedRecords ==
    { [y |-> 2019, m |-> 0 - 1, entry |-> [type |-> Misc, fields |-> ("year" :> S2019) @@ ("month" :> mon)]] :
        mon \in {SFoo, <<>>, <<"1", "a">>, <<"J", "-", "n">>} }

SortkeyInputs == DatedRecords \cup UndatedRecords

KnownTypes ==
    {Article, Inproceedings, Incollection, Inbook, Techreport, Phdthesis,
     Mastersthesis, Unpublished, Misc}

TypeAlphabet == {"f", "{", "}"}

VenueTypes == KnownTypes \cup SeqsOf(TypeAlphabet, 1, MaxTypeLen)

VenueFieldNames ==
    {"journal", "volume", "number", "booktitle", "eventtitle", "conference",
     "series", "title", "institution", "publisher"}

VenueValues == {<<>>, <<"{", "N", "}">>}

\* field dicts holding at most two of the fields _venue reads
VenueFields ==
    { a @@ b : a \in UNION {OptField(k, VenueValues) : k \in VenueFieldNames},
               b \in UNION {OptField(k, VenueValues) : k \in VenueFieldNames} }

MonthNameInputs ==
    {[t |-> "int", n |-> k, s |-> <<>>] : k \in (0 - 15)..15}
    \cup {[t |-> "str", n |-> 0, s |-> sp] :
            sp \in {<<"5">>, <<"0", "5">>, <<"1", "2">>, <<"1", "3">>, <<"0">>,
                    <<"-", "1">>, <<>>, SJan, SFoo}}
    \cup {[t |-> "none", n |-> 0, s |-> <<>>]}

DoiAlphabet == {"h", "t", "p", ":", "/", "1"}

DoiInputs ==
    {[type |-> Article, fields |-> ("title" :> STitle)]}
    \cup {[type |-> Article, fields |-> ("title" :> STitle) @@ ("doi" :> v)] :
            v \in SeqsOf(DoiAlphabet, 0, MaxDoiLen)}

InitCalls ==
    /\ db = <<>>
    /\ entries = <<>>
    /\ normcount = <<>>
    /\ tmpl = "title"
    /\ pc = "off"
    /\ i = 1
    /\ keys = <<>>
    /\ bib_sorted = <<>>
    /\ j = 1
    /\ out = <<>>
    /\ err = Ok(<<>>)
    /\ CallsIdle

CallBetterBiblatex ==
    /\ fn = "idle"
    /\ \E e \in NormalizerInputs :
          /\ arg' = e
          /\ ret' = better_biblatex(e)
    /\ fn' = "better_biblatex"
    /\ UNCHANGED pipeline_vars

CallSortkey ==
    /\ fn = "idle"
    /\ \E a, b \in SortkeyInputs :
          /\ arg' = [a |-> a, b |-> b]
          /\ ret' = [a |-> sortkey(a.entry), b |-> sortkey(b.entry)]
    /\ fn' = "sortkey"
    /\ UNCHANGED pipeline_vars

CallVenue ==
    /\ fn = "idle"
    /\ \E t \in VenueTypes, f \in VenueFields, halt \in BOOLEAN :
          /\ arg' = [entry |-> [type |-> t, fields |-> f], halt_if_unknown |-> halt]
          /\ ret' = venue([type |-> t, fields |-> f], halt)
    /\ fn' = "venue"
    /\ UNCHANGED pipeline_vars

CallMonthName ==
    /\ fn = "idle"
    /\ \E x \in MonthNameInputs :
          /\ arg' = x
          /\ ret' = month_name(x)
    /\ fn' = "month_name"
    /\ UNCHANGED pipeline_vars

CallDoi ==
    /\ fn = "idle"
    /\ \E e \in DoiInputs :
          /\ arg' = e
          /\ ret' = doi(e)
    /\ fn' = "doi"
    /\ UNCHANGED pipeline_vars

CallReturn ==
    /\ fn # "idle"
    /\ fn' = "idle"
    /\ arg' = NoCall
    /\ ret' = NoCall
    /\ UNCHANGED pipeline_vars

NextCall ==
    \/ CallBetterBiblatex
    \/ CallSortkey
    \/ CallVenue
    \/ CallMonthName
    \/ CallDoi
    \/ CallReturn

SpecCalls == InitCalls /\ [][NextCall]_vars


(***************************************************************************)
(* Properties of the direct calls, checked under SpecCalls                 *)
(***************************************************************************)

\* (y1, m1) is earlier than (y2, m2); no month (0) is before every month
Earlier(a, b) == a.y < b.y \/ (a.y = b.y /\ a.m < b.m)

BothDated == fn = "sortkey" /\ arg.a.m >= 0 /\ arg.b.m >= 0

\* C1: for two records with valid dates, _sortkey returns a key for each,
\* and the keys compare as strings the way (year, month) compare in time:
\* the earlier date has the smaller key and equal dates have equal keys.
C1_KeyOrderIsChronological ==
    BothDated =>
        /\ ret.a.exc = ""
        /\ ret.b.exc = ""
        /\ StrLess(ret.a.val, ret.b.val) <=> Earlier(arg.a, arg.b)
        /\ ret.a.val = ret.b.val <=> (arg.a.y = arg.b.y /\ arg.a.m = arg.b.m)

\* December of an earlier year, spelled as a name, against a later year
\* without a month
C1_Witness ==
    /\ BothDated
    /\ arg.a.y < arg.b.y
    /\ arg.a.m = 12
    /\ arg.a.entry.fields["month"] = CalendarMonthName[13]
    /\ arg.b.m = 0
    /\ StrLess(ret.a.val, ret.b.val)

\* the month field is present and is neither all digits nor, by its first
\* three letters in lower case, an entry of the month table
Unrecognised(mon) ==
    /\ ~(Len(mon) > 0 /\ \A k \in 1..Len(mon) : mon[k] \in DigitSet)
    /\ \A n \in 1..12 : Slice(Lower(mon), 0, 3) # MonthKeys[n]

\* C6: _sortkey on a record whose month is present and unrecognised fails
\* with an error and yields no key.
C6_UnrecognisedMonthFails ==
    fn = "sortkey" =>
        /\ ("month" \in DOMAIN arg.a.entry.fields /\ Unrecognised(arg.a.entry.fields["month"]))
              => ret.a.exc # ""
        /\ ("month" \in DOMAIN arg.b.entry.fields /\ Unrecognised(arg.b.entry.fields["month"]))
              => ret.b.exc # ""

NormalizerReturned == fn = "better_biblatex" /\ ret.exc = ""

\* the first four characters of s, or all of s when it is shorter
FirstFour(s) == [k \in 1..(IF Len(s) < 4 THEN Len(s) ELSE 4) |-> s[k]]

YearRule ==
    IF "year" \in DOMAIN arg THEN ret.val["year"] = arg["year"]
    ELSE ret.val["year"] = FirstFour(arg["date"])

MonthKept ==
    /\ "month" \in DOMAIN ret.val <=> "month" \in DOMAIN arg
    /\ "month" \in DOMAIN arg => ret.val["month"] = arg["month"]

\* C4 as amended: year keeps its prior value, else is the first 4 characters
\* of date; when year was absent and date has at least 7 characters, month
\* is characters 6-7 of date; in every other case no month is added and a
\* month already there is kept.
C4_YearAndMonthDerivation ==
    NormalizerReturned =>
        /\ "year" \in DOMAIN ret.val
        /\ YearRule
        /\ IF "year" \notin DOMAIN arg /\ Len(arg["date"]) >= 7
           THEN ret.val["month"] = <<arg["date"][6], arg["date"][7]>>
           ELSE MonthKept

\* C4 as stated: month is characters 6-7 of date whenever date has at least
\* 7 characters, whether or not year was present.
C4_Original ==
    NormalizerReturned =>
        /\ YearRule
        /\ ("date" \in DOMAIN arg /\ Len(arg["date"]) >= 7)
              => ("month" \in DOMAIN ret.val /\ ret.val["month"] = <<arg["date"][6], arg["date"][7]>>)
        /\ ("date" \in DOMAIN arg /\ Len(arg["date"]) < 7)
              => ("month" \in DOMAIN ret.val <=> "month" \in DOMAIN arg)

\* date = "2019-05-12" without year gives year "2019" and month "05"
C4_Witness ==
    /\ NormalizerReturned
    /\ "year" \notin DOMAIN arg
    /\ arg["date"] = Date2019_05_12
    /\ ret.val["year"] = S2019
    /\ ret.val["month"] = <<"0", "5">>

\* C5 as amended: normalization removes no field and changes none but month
\* and journal; year is set only when absent; journal becomes the value of
\* journaltitle when that is present and is otherwise untouched; month is
\* overwritten only when year was absent and date has at least 7
\* characters; the only keys that can be new are year, month and journal.
C5_OnlyAddsOrMirrors ==
    NormalizerReturned =>
        /\ DOMAIN arg \subseteq DOMAIN ret.val
        /\ (DOMAIN ret.val) \ (DOMAIN arg) \subseteq {"year", "month", "journal"}
        /\ \A k \in (DOMAIN arg) \ {"month", "journal"} : ret.val[k] = arg[k]
        /\ IF "journaltitle" \in DOMAIN arg
           THEN ret.val["journal"] = arg["journaltitle"]
           ELSE ("journal" \in DOMAIN ret.val <=> "journal" \in DOMAIN arg)
                /\ ("journal" \in DOMAIN arg => ret.val["journal"] = arg["journal"])
        /\ ("month" \in DOMAIN arg /\ ret.val["month"] # arg["month"])
              => ("year" \notin DOMAIN arg /\ Len(arg["date"]) >= 7)

\* C5 as stated: every field held before, a pre-existing month or journal
\* included, has the same value afterwards.
C5_Original ==
    NormalizerReturned =>
        /\ \A k \in DOMAIN arg : k \in DOMAIN ret.val /\ ret.val[k] = arg[k]
        /\ (DOMAIN ret.val) \ (DOMAIN arg) \subseteq {"year", "month", "journal"}

\* journaltitle without journal: journal is added, journaltitle stays
C5_Witness ==
    /\ NormalizerReturned
    /\ "journaltitle" \in DOMAIN arg
    /\ "journal" \notin DOMAIN arg
    /\ ret.val["journal"] = SPnas
    /\ ret.val["journaltitle"] = SPnas

UnknownTypeCall == fn = "venue" /\ arg.entry.type \notin KnownTypes

\* the type with its curly braces left out
WithoutBraces(s) == SelectSeq(s, LAMBDA c : c \notin {"{", "}"})

IsNumeric(x) == x.t = "int" \/ (x.t = "str" /\ IntOk(x.s))

NumberOf(x) == IF x.t = "int" THEN x.n ELSE ParseInt(x.s)

\* C8: _month_name never raises, returns the English name for the month
\* numbers 1..12 and the empty string for everything else.
C8_MonthNameOrEmpty ==
    fn = "month_name" =>
        /\ ret.exc = ""
        /\ IF IsNumeric(arg) /\ NumberOf(arg) \in 1..12
           THEN ret.val = CalendarMonthName[NumberOf(arg) + 1]
           ELSE ret.val = <<>>

DoiCall == fn = "doi" /\ "doi" \in DOMAIN arg.fields

\* s begins with a URL scheme: letters followed by "://"
BeginsWithUrlScheme(s) ==
    \E k \in 1..Len(s) :
        /\ \A n \in 1..k : s[n] \in {"h", "t", "p"}
        /\ Len(s) >= k + 3
        /\ SubSeq(s, k + 1, k + 3) = <<":", "/", "/">>

\* C9 as amended: _doi never fails; it returns the empty string without a
\* doi field, the value unchanged when it begins with the four characters
\* "http", and otherwise the value prefixed with "https://dx.doi.org/".
C9_DoiLink ==
    fn = "doi" =>
        /\ ret.exc = ""
        /\ "doi" \notin DOMAIN arg.fields => ret.val = <<>>
        /\ "doi" \in DOMAIN arg.fields =>
              LET v == arg.fields["doi"]
              IN  IF Len(v) >= 4 /\ v[1] = "h" /\ v[2] = "t" /\ v[3] = "t" /\ v[4] = "p"
                  THEN ret.val = v
                  ELSE /\ Len(ret.val) = Len(DoiBase) + Len(v)
                       /\ SubSeq(ret.val, 1, Len(DoiBase)) = DoiBase
                       /\ SubSeq(ret.val, Len(DoiBase) + 1, Len(ret.val)) = v

\* C9 as stated: unchanged exactly when the value begins with a URL scheme.
C9_Original ==
    fn = "doi" =>
        /\ ret.exc = ""
        /\ "doi" \notin DOMAIN arg.fields => ret.val = <<>>
        /\ "doi" \in DOMAIN arg.fields =>
              IF BeginsWithUrlScheme(arg.fields["doi"])
              THEN ret.val = arg.fields["doi"]
              ELSE ret.val = DoiBase \o arg.fields["doi"]

\* a value that begins with "http" and is no URL, returned as it is
C9_Witness ==
    /\ DoiCall
    /\ arg.fields["doi"] = <<"h", "t", "t", "p", ":">>
    /\ ret.val = arg.fields["doi"]


=============================================================================
